---- MODULE Spec2Model ----
(***************************************************************************)
(* Model of the WeatherApp component (src/weatherapp.tsx).                 *)
(*                                                                         *)
(* The component's six useState fields are the state; what is on screen    *)
(* is the variable view, recomputed by every handler step (React commits   *)
(* the state updates of one synchronous continuation together and then     *)
(* re-renders).  The browser geolocation requests, the geocoding requests  *)
(* and the paired current-conditions / forecast requests are kept as       *)
(* logs: one record per request issued, with the values its closure        *)
(* captured and how far it has got.  A step of the model is one task of    *)
(* the event loop: a user event, a geolocation callback, or the arrival    *)
(* of one HTTP response together with the continuations it resumes.        *)
(***************************************************************************)
EXTENDS Integers, Sequences, FiniteSets, TLC

VARIABLES weather, forecast, location, unit, loading, error, view,
          geos, searches, fetches,
          forecastList, tiles

vars == <<weather, forecast, location, unit, loading, error, view,
          geos, searches, fetches, forecastList, tiles>>

(* forecast.list of the stored forecast and the ForecastDay tiles rendered *)
(* from it; the entries are identified by their dt.  The orchestration     *)
(* never looks into the list, so Spec leaves both alone and TilesSpec      *)
(* below varies them.                                                      *)
tileVars == <<forecastList, tiles>>

----------------------------------------------------------------------------
(* Bound on the user's activity: unit toggles and submitted searches. *)
MaxAttempts == 1

(* Bound on the length of a forecast list. *)
MaxListLen == 6

----------------------------------------------------------------------------
(* Values. *)
Units == {"metric", "imperial"}
Locations == {"", "Nowhereville"}
(* What the device reports, and what the geocoder answers. *)
DevicePositions == {[lat |-> 1, lon |-> 36], [lat |-> -1, lon |-> 37]}
CityPositions == {[lat |-> 51, lon |-> 0], [lat |-> 48, lon |-> 2]}

GeolocationBlocked == "Geolocation blocked. Please enable it or search manually."
LocationNotFound == "Location not found"
FailedLocation == "Failed to fetch location"
FailedWeather == "Failed to fetch weather data"

(* useState(null): no payload.  A payload is identified by the call that   *)
(* requested it and the query parameters of that request.                  *)
Null == [call |-> 0, lat |-> 0, lon |-> 0, units |-> "none"]

ResponseData(i) ==
    [call |-> i, lat |-> fetches[i].lat, lon |-> fetches[i].lon,
     units |-> fetches[i].units]

----------------------------------------------------------------------------
(* The render selector. *)
Render_readyFirst(l, e, w, f) ==
    IF l THEN "loading"
    ELSE IF w # Null /\ f # Null THEN "ready"
    ELSE IF e # "" THEN "error"
    ELSE "empty"

Render(l, e, w, f) ==
    IF l THEN "loading"
    ELSE IF e # "" THEN "error"
    ELSE IF w # Null /\ f # Null THEN "ready"
    ELSE "empty"

(* The state updates of one continuation, committed together, and the      *)
(* re-render that follows.                                                 *)
Commit(l, e, w, f) ==
    /\ loading' = l
    /\ error' = e
    /\ weather' = w
    /\ forecast' = f
    /\ view' = Render(l, e, w, f)

(* The search form and the unit button exist only in the last return.      *)
FormRendered == view \in {"ready", "empty"}

----------------------------------------------------------------------------
(* Records of the requests issued. *)
NoPosition == [lat |-> 0, lon |-> 0]

(* A getCurrentPosition call: the unit of the render whose effect made it, *)
(* and the position its success callback received.                         *)
GeoRequest(u, o) ==
    [unit |-> u, origin |-> o, status |-> "pending", position |-> NoPosition]

(* A handleSearch call past its guard: the query and the unit of the       *)
(* render whose form was submitted, and what the geocoder answered.        *)
SearchCall(q, u) ==
    [query |-> q, unit |-> u, pc |-> "geocoding", res |-> "pending",
     position |-> NoPosition]

(* A fetchWeather call: its arguments, the unit of its closure, the state  *)
(* of its two requests and of the Promise.all that joins them.             *)

FetchCall(la, lo, u, o) ==
    [lat |-> la, lon |-> lo, units |-> u, origin |-> o,
     w |-> "pending", f |-> "pending", settled |-> "waiting"]

Init ==
    /\ weather = Null
    /\ forecast = Null
    /\ location = ""
    /\ unit = "metric"
    /\ loading = FALSE
    /\ error = ""
    /\ view = Render(FALSE, "", Null, Null)
    /\ geos = <<GeoRequest("metric", "mount")>>
    /\ searches = <<>>
    /\ fetches = <<>>
    /\ forecastList = <<>>
    /\ tiles = <<>>

----------------------------------------------------------------------------
(* fetchWeather up to its await: setLoading(true) and the two requests,    *)
(* with the unit of the closure that calls it.                             *)
FetchWeather(la, lo, u, o) ==
    /\ fetches' = Append(fetches, FetchCall(la, lo, u, o))
    /\ Commit(TRUE, error, weather, forecast)

(* The await in handleSearch returns when the fetchWeather it called has   *)
(* run its finally; handleSearch's own finally follows.                    *)
Returned(i) ==
    IF fetches[i].origin.kind = "search"
    THEN searches' = [searches EXCEPT ![fetches[i].origin.id].pc = "done"]
    ELSE UNCHANGED searches

----------------------------------------------------------------------------
(* User events. *)
UserAttempts == (Len(geos) - 1) + Len(searches)

SetLocation(q) ==
    /\ FormRendered
    /\ location' = q
    /\ UNCHANGED <<weather, forecast, unit, loading, error, view,
                   geos, searches, fetches>>
    /\ UNCHANGED tileVars

HandleSearchEmpty_noGuard ==
    /\ FormRendered
    /\ location = ""
    /\ UserAttempts < MaxAttempts
    /\ searches' = Append(searches, SearchCall(location, unit))
    /\ Commit(TRUE, error, weather, forecast)
    /\ UNCHANGED <<location, unit, geos, fetches>>
    /\ UNCHANGED tileVars

HandleSearchEmpty ==
    /\ FormRendered
    /\ location = ""
    /\ UNCHANGED vars

HandleSearch ==
    /\ FormRendered
    /\ location # ""
    /\ UserAttempts < MaxAttempts
    /\ searches' = Append(searches, SearchCall(location, unit))
    /\ Commit(TRUE, error, weather, forecast)
    /\ UNCHANGED <<location, unit, geos, fetches>>
    /\ UNCHANGED tileVars

EffectUnit_staleUnit(u) ==
    geos' = Append(geos, GeoRequest(unit, "toggle"))

(* The effect of the render with unit u. *)
EffectUnit(u) ==
    geos' = Append(geos, GeoRequest(u, "toggle"))

ToggleUnit ==
    /\ FormRendered
    /\ UserAttempts < MaxAttempts
    /\ LET u == IF unit = "metric" THEN "imperial" ELSE "metric"
       IN /\ unit' = u
          /\ EffectUnit(u)
    /\ UNCHANGED <<weather, forecast, location, loading, error, view,
                   searches, fetches>>
    /\ UNCHANGED tileVars

----------------------------------------------------------------------------
(* Geolocation callbacks. *)
GeoSuccess(g, p) ==
    /\ g \in DOMAIN geos
    /\ geos[g].status = "pending"
    /\ geos' = [geos EXCEPT ![g].status = "success", ![g].position = p]
    /\ FetchWeather(p.lat, p.lon, geos[g].unit, [kind |-> "geo", id |-> g])
    /\ UNCHANGED <<location, unit, searches>>
    /\ UNCHANGED tileVars

GeoError_retry(g) ==
    /\ g \in DOMAIN geos
    /\ geos[g].status = "pending"
    /\ geos' = Append([geos EXCEPT ![g].status = "error"],
                      GeoRequest(geos[g].unit, "retry"))
    /\ Commit(loading, GeolocationBlocked, weather, forecast)
    /\ UNCHANGED <<location, unit, searches, fetches>>
    /\ UNCHANGED tileVars

GeoError(g) ==
    /\ g \in DOMAIN geos
    /\ geos[g].status = "pending"
    /\ geos' = [geos EXCEPT ![g].status = "error"]
    /\ Commit(loading, GeolocationBlocked, weather, forecast)
    /\ UNCHANGED <<location, unit, searches, fetches>>
    /\ UNCHANGED tileVars

----------------------------------------------------------------------------
(* Geocoding responses: the continuation of handleSearch. *)
GeocodeEmpty_noReturn(s) ==
    /\ s \in DOMAIN searches
    /\ searches[s].pc = "geocoding"
    /\ searches' = [searches EXCEPT ![s].pc = "fetching", ![s].res = "empty"]
    /\ fetches' = Append(fetches, FetchCall(0, 0, searches[s].unit,
                                            [kind |-> "search", id |-> s]))
    /\ Commit(TRUE, LocationNotFound, weather, forecast)
    /\ UNCHANGED <<location, unit, geos>>
    /\ UNCHANGED tileVars

GeocodeEmpty_noFinally(s) ==
    /\ s \in DOMAIN searches
    /\ searches[s].pc = "geocoding"
    /\ searches' = [searches EXCEPT ![s].pc = "done", ![s].res = "empty"]
    /\ Commit(loading, LocationNotFound, weather, forecast)
    /\ UNCHANGED <<location, unit, geos, fetches>>
    /\ UNCHANGED tileVars

GeocodeEmpty(s) ==
    /\ s \in DOMAIN searches
    /\ searches[s].pc = "geocoding"
    /\ searches' = [searches EXCEPT ![s].pc = "done", ![s].res = "empty"]
    /\ Commit(FALSE, LocationNotFound, weather, forecast)
    /\ UNCHANGED <<location, unit, geos, fetches>>
    /\ UNCHANGED tileVars

GeocodeFail(s) ==
    /\ s \in DOMAIN searches
    /\ searches[s].pc = "geocoding"
    /\ searches' = [searches EXCEPT ![s].pc = "done", ![s].res = "error"]
    /\ Commit(FALSE, FailedLocation, weather, forecast)
    /\ UNCHANGED <<location, unit, geos, fetches>>
    /\ UNCHANGED tileVars

GeocodeMatch(s, p) ==
    /\ s \in DOMAIN searches
    /\ searches[s].pc = "geocoding"
    /\ searches' = [searches EXCEPT ![s].pc = "fetching", ![s].res = "match",
                                     ![s].position = p]
    /\ FetchWeather(p.lat, p.lon, searches[s].unit, [kind |-> "search", id |-> s])
    /\ UNCHANGED <<location, unit, geos>>
    /\ UNCHANGED tileVars

----------------------------------------------------------------------------
(* Responses of the paired requests: the continuation of fetchWeather. *)

Dropped_applyLate(i, rec) ==
    /\ fetches' = [fetches EXCEPT ![i] = rec]
    /\ Commit(loading, error,
              IF fetches[i].w = "pending" /\ rec.w = "ok" THEN ResponseData(i) ELSE weather,
              IF fetches[i].f = "pending" /\ rec.f = "ok" THEN ResponseData(i) ELSE forecast)
    /\ UNCHANGED <<location, unit, geos, searches>>

(* Promise.all has already rejected: the response has no continuation. *)
Dropped(i, rec) ==
    /\ fetches' = [fetches EXCEPT ![i] = rec]
    /\ UNCHANGED <<weather, forecast, location, unit, loading, error, view,
                   geos, searches>>

Joining_applyEarly(i, rec) ==
    /\ fetches' = [fetches EXCEPT ![i] = rec]
    /\ Commit(loading, error,
              IF fetches[i].w = "pending" /\ rec.w = "ok" THEN ResponseData(i) ELSE weather,
              IF fetches[i].f = "pending" /\ rec.f = "ok" THEN ResponseData(i) ELSE forecast)
    /\ UNCHANGED <<location, unit, geos, searches>>

(* First of the two to succeed: Promise.all keeps waiting. *)
Joining(i, rec) ==
    /\ fetches' = [fetches EXCEPT ![i] = rec]
    /\ UNCHANGED <<weather, forecast, location, unit, loading, error, view,
                   geos, searches>>

FetchWeatherApply_latestOnly(i, rec) ==
    /\ fetches' = [fetches EXCEPT ![i] = [rec EXCEPT !.settled = "resolved"]]
    /\ IF i = Len(fetches)
       THEN Commit(FALSE, error, ResponseData(i), ResponseData(i))
       ELSE Commit(FALSE, error, weather, forecast)
    /\ Returned(i)
    /\ UNCHANGED <<location, unit, geos>>

(* Both succeeded: setWeather, setForecast, finally. *)
FetchWeatherApply(i, rec) ==
    /\ fetches' = [fetches EXCEPT ![i] = [rec EXCEPT !.settled = "resolved"]]
    /\ Commit(FALSE, error, ResponseData(i), ResponseData(i))
    /\ Returned(i)
    /\ UNCHANGED <<location, unit, geos>>

FetchWeatherCatch_partial(i, rec) ==
    /\ fetches' = [fetches EXCEPT ![i] = [rec EXCEPT !.settled = "rejected"]]
    /\ Commit(FALSE, FailedWeather,
              IF rec.w = "ok" THEN ResponseData(i) ELSE weather,
              IF rec.f = "ok" THEN ResponseData(i) ELSE forecast)
    /\ Returned(i)
    /\ UNCHANGED <<location, unit, geos>>

FetchWeatherCatch_rethrow(i, rec) ==
    /\ fetches' = [fetches EXCEPT ![i] = [rec EXCEPT !.settled = "rejected"]]
    /\ Commit(FALSE,
              IF fetches[i].origin.kind = "search" THEN FailedLocation ELSE FailedWeather,
              weather, forecast)
    /\ Returned(i)
    /\ UNCHANGED <<location, unit, geos>>

(* First rejection: catch, finally. *)
FetchWeatherCatch(i, rec) ==
    /\ fetches' = [fetches EXCEPT ![i] = [rec EXCEPT !.settled = "rejected"]]
    /\ Commit(FALSE, FailedWeather, weather, forecast)
    /\ Returned(i)
    /\ UNCHANGED <<location, unit, geos>>

RequestSettled(i, req, res) ==
    /\ i \in DOMAIN fetches
    /\ fetches[i][req] = "pending"
    /\ LET other == IF req = "w" THEN "f" ELSE "w"
           rec == [fetches[i] EXCEPT ![req] = res]
       IN IF fetches[i].settled # "waiting" THEN Dropped(i, rec)
          ELSE IF res = "fail" THEN FetchWeatherCatch(i, rec)
          ELSE IF fetches[i][other] = "ok" THEN FetchWeatherApply(i, rec)
          ELSE Joining(i, rec)
    /\ UNCHANGED tileVars

----------------------------------------------------------------------------
User ==
    \/ \E q \in Locations : SetLocation(q)
    \/ HandleSearchEmpty
    \/ HandleSearch
    \/ ToggleUnit

Geolocation ==
    \/ \E g \in DOMAIN geos : \E p \in DevicePositions : GeoSuccess(g, p)
    \/ \E g \in DOMAIN geos : GeoError(g)

Responses ==
    \/ \E s \in DOMAIN searches : GeocodeEmpty(s)
    \/ \E s \in DOMAIN searches : GeocodeFail(s)
    \/ \E s \in DOMAIN searches : \E p \in CityPositions : GeocodeMatch(s, p)
    \/ \E i \in DOMAIN fetches : \E req \in {"w", "f"} : \E res \in {"ok", "fail"} :
          RequestSettled(i, req, res)

Next == User \/ Geolocation \/ Responses

Spec == Init /\ [][Next]_vars

(* Every issued HTTP request eventually resolves or rejects. *)
FairSpec == Spec /\ WF_vars(Responses)

----------------------------------------------------------------------------
(* The forecast tiles. *)
DtValues == {1, 2}

ForecastLists == UNION {[1..n -> DtValues] : n \in 0..MaxListLen}

(* Array.prototype.slice(start, end). *)
Slice(s, start, end) ==
    LET n == Len(s)
        from == IF start < 0 THEN (IF n + start < 0 THEN 0 ELSE n + start)
                ELSE (IF start > n THEN n ELSE start)
        to == IF end < 0 THEN (IF n + end < 0 THEN 0 ELSE n + end)
              ELSE (IF end > n THEN n ELSE end)
    IN IF to > from THEN [k \in 1..(to - from) |-> s[from + k]] ELSE <<>>

TileCount == 5

ForecastTiles_dropsFirst(l) == Slice(l, 1, TileCount)

(* forecast.list.slice(0, 5).map(day => <ForecastDay .../>) *)
ForecastTiles(l) == Slice(l, 0, TileCount)

(* The ready view after the first geolocation-based fetch, showing a       *)
(* forecast with any list.                                                 *)
TilesInit ==
    /\ location = ""
    /\ unit = "metric"
    /\ geos = <<[GeoRequest("metric", "mount") EXCEPT
                    !.status = "success", !.position = [lat |-> 1, lon |-> 36]]>>
    /\ searches = <<>>
    /\ fetches = <<[FetchCall(1, 36, "metric", [kind |-> "geo", id |-> 1]) EXCEPT
                       !.w = "ok", !.f = "ok", !.settled = "resolved"]>>
    /\ weather = [call |-> 1, lat |-> 1, lon |-> 36, units |-> "metric"]
    /\ forecast = weather
    /\ loading = FALSE
    /\ error = ""
    /\ view = Render(loading, error, weather, forecast)
    /\ forecastList \in ForecastLists
    /\ tiles = ForecastTiles(forecastList)

(* The ready view is rendered with a forecast whose list is l. *)
RenderForecast(l) ==
    /\ view = "ready"
    /\ forecastList' = l
    /\ tiles' = ForecastTiles(l)
    /\ UNCHANGED <<weather, forecast, location, unit, loading, error, view,
                   geos, searches, fetches>>

TilesNext == \E l \in ForecastLists : RenderForecast(l)

TilesSpec == TilesInit /\ [][TilesNext]_vars

----------------------------------------------------------------------------
(* What is in flight. *)
GeocodingInFlight == \E s \in DOMAIN searches : searches[s].pc = "geocoding"

WeatherRequestInFlight ==
    \E i \in DOMAIN fetches : fetches[i].w = "pending" \/ fetches[i].f = "pending"

RequestInFlight == GeocodingInFlight \/ WeatherRequestInFlight

(* A request whose answer its call still waits for. *)
AwaitedRequestInFlight ==
    \/ GeocodingInFlight
    \/ \E i \in DOMAIN fetches : fetches[i].settled = "waiting"

AttemptInFlight ==
    \/ \E s \in DOMAIN searches : searches[s].pc # "done"
    \/ \E i \in DOMAIN fetches : fetches[i].settled = "waiting"

----------------------------------------------------------------------------
(* C1: when the geocoding lookup of a manual search returns zero matches,  *)
(* the step that receives the answer issues no request, sets the error     *)
(* message to 'Location not found', completes the search and leaves the    *)
(* error view on screen; and no fetchWeather call ever comes from a search *)
(* whose lookup did not return a match.                                    *)
C1_ZeroMatches ==
    [][
        /\ \A s \in DOMAIN searches :
             (searches[s].res = "pending" /\ searches'[s].res = "empty")
                => /\ error' = LocationNotFound
                   /\ view' = "error"
                   /\ searches'[s].pc = "done"
                   /\ fetches' = fetches
        /\ \A i \in DOMAIN fetches' :
             fetches'[i].origin.kind = "search"
                => searches'[fetches'[i].origin.id].res = "match"]_vars

C1_Witness ==
    \E s \in DOMAIN searches :
        /\ searches[s].res = "empty"
        /\ searches[s].pc = "done"
        /\ error = LocationNotFound
        /\ view = "error"

(* C2: in every state weather is non-null exactly when forecast is. *)
C2_BothOrNeither == (weather # Null) <=> (forecast # Null)

C2_Witness ==
    /\ weather # Null
    /\ forecast # Null
    /\ \E i \in DOMAIN fetches : fetches[i].settled = "resolved"

(* C3: a fetchWeather call one of whose requests fails sets the error      *)
(* message to 'Failed to fetch weather data' when it fails; no step of     *)
(* that call (its start, the success of its other request before the       *)
(* failure, the failure, the late answer of the other request) changes     *)
(* weather or forecast; and the stored payloads never come from it.        *)
C3_FailureLeavesData ==
    [][
        /\ \A i \in DOMAIN fetches' :
             ((i \notin DOMAIN fetches \/ fetches'[i] # fetches[i])
                 /\ fetches'[i].settled # "resolved")
                => /\ weather' = weather
                   /\ forecast' = forecast
        /\ \A i \in DOMAIN fetches :
             (fetches[i].settled = "waiting" /\ fetches'[i].settled = "rejected")
                => error' = FailedWeather
        /\ \A i \in DOMAIN fetches' :
             (fetches'[i].w = "fail" \/ fetches'[i].f = "fail")
                => /\ fetches'[i].settled = "rejected"
                   /\ weather'.call # i
                   /\ forecast'.call # i]_vars

C3_Witness ==
    \E i \in DOMAIN fetches :
        /\ fetches[i].settled = "rejected"
        /\ fetches[i].w = "ok"
        /\ fetches[i].f = "fail"
        /\ error = FailedWeather
        /\ weather.call # i

(* C4: what is on screen follows the precedence loading, then error, then  *)
(* ready or empty; stored data is never on screen while an error message   *)
(* is set.                                                                 *)
C4_Precedence ==
    /\ loading => view = "loading"
    /\ (~loading /\ error # "") => view = "error"
    /\ (~loading /\ error = "" /\ weather # Null /\ forecast # Null) => view = "ready"
    /\ (~loading /\ error = "" /\ ~(weather # Null /\ forecast # Null)) => view = "empty"
    /\ error # "" => view # "ready"

C4_Witness ==
    /\ ~loading
    /\ error # ""
    /\ weather # Null
    /\ forecast # Null
    /\ view = "error"

C6_MountFailureAsClaimed ==
    (geos[1].status = "error" /\ Len(searches) = 0)
        => /\ error = GeolocationBlocked
           /\ view = "error"
           /\ Len(fetches) = 0

(* C6, amended: the same, when in addition no geolocation request made by  *)
(* a unit toggle has succeeded; and every geolocation request other than   *)
(* the one made on mount was made by a unit toggle (none is a retry).      *)
C6_MountFailure ==
    (/\ geos[1].status = "error"
     /\ Len(searches) = 0
     /\ \A g \in DOMAIN geos : geos[g].status # "success")
        => /\ error = GeolocationBlocked
           /\ view = "error"
           /\ Len(fetches) = 0
           /\ weather = Null
           /\ \A g \in DOMAIN geos : g # 1 => geos[g].origin = "toggle"

C6_Witness ==
    /\ geos[1].status = "error"
    /\ Len(searches) = 0
    /\ Len(geos) = 2
    /\ geos[2].status = "pending"
    /\ Len(fetches) = 0
    /\ view = "error"
    /\ error = GeolocationBlocked

(* C7, as claimed: once a geolocation failure has set the advisory and     *)
(* nothing is loading, the search form is on screen, so that a city name   *)
(* can be typed and submitted.                                             *)
C7_SearchStillAvailable ==
    (error = GeolocationBlocked /\ ~loading) => FormRendered

(* C8, as claimed: a step that starts an attempt leaves the error message  *)
(* unchanged, and the step in which a fetchWeather call resolves           *)
(* successfully clears the error message and puts the ready view on        *)
(* screen.                                                                 *)
C8_ErrorClearedOnSuccess ==
    [][
        /\ (Len(searches') > Len(searches) \/ Len(fetches') > Len(fetches))
             => error' = error
        /\ \A i \in DOMAIN fetches :
             (fetches[i].settled = "waiting" /\ fetches'[i].settled = "resolved")
                => /\ error' = ""
                   /\ view' = "ready"]_vars

(* C9, as claimed: whenever a geocoding, current-conditions or forecast    *)
(* request is in flight and its call still waits for the answer, the       *)
(* loading flag is set and the loading view is on screen.                  *)
C9_LoadingWhileInFlight ==
    AwaitedRequestInFlight => (loading /\ view = "loading")

(* C10: in every state in which no attempt (handleSearch or fetchWeather   *)
(* call) is in flight the loading flag is false; and, every issued request *)
(* being answered eventually, a set loading flag is eventually cleared.    *)
C10_LoadingCleared ==
    /\ [](~AttemptInFlight => ~loading)
    /\ loading ~> ~loading

C10_Witness ==
    /\ ~AttemptInFlight
    /\ ~loading
    /\ \E s \in DOMAIN searches : searches[s].res = "empty"
    /\ \E i \in DOMAIN fetches : fetches[i].settled = "rejected"

(* C11: fetchWeather calls are not interlocked.  Whenever a call resolves, *)
(* its payloads replace the stored weather and forecast, whether or not a  *)
(* call issued after it is in flight or has already resolved; so the data  *)
(* of an older request can overwrite that of a newer one.                  *)
C11_NotInterlocked ==
    [][\A i \in DOMAIN fetches :
          (fetches[i].settled = "waiting" /\ fetches'[i].settled = "resolved")
             => /\ weather' = ResponseData(i)
                /\ forecast' = ResponseData(i)
                /\ weather'.units = fetches[i].units]_vars

(* Two calls were in flight at once, the later-issued one (new unit)       *)
(* resolved first and the earlier-issued one (previous unit) last.         *)
C11_Witness ==
    \E i \in DOMAIN fetches : \E j \in DOMAIN fetches :
        /\ i < j
        /\ fetches[i].settled = "resolved"
        /\ fetches[j].settled = "resolved"
        /\ fetches[i].units = "metric"
        /\ fetches[j].units = "imperial"
        /\ unit = "imperial"
        /\ weather.call = i
        /\ forecast.call = i
        /\ weather.units = "metric"

(* C13: in a manual search each error message has its own cause.  The step *)
(* in which the geocoding request fails sets 'Failed to fetch location'    *)
(* and issues no request; the step in which the fetchWeather call of a     *)
(* search with a match fails sets 'Failed to fetch weather data'; and the  *)
(* message becomes 'Failed to fetch location' in no other step than the    *)
(* failure of a geocoding request.                                         *)
C13_ErrorByCause ==
    [][
        /\ \A s \in DOMAIN searches :
             (searches[s].res = "pending" /\ searches'[s].res = "error")
                => /\ error' = FailedLocation
                   /\ fetches' = fetches
                   /\ searches'[s].pc = "done"
        /\ \A i \in DOMAIN fetches :
             (fetches[i].origin.kind = "search" /\ fetches[i].settled = "waiting"
                 /\ fetches'[i].settled = "rejected")
                => /\ searches[fetches[i].origin.id].res = "match"
                   /\ error' = FailedWeather
        /\ (error' = FailedLocation /\ error # FailedLocation)
             => \E s \in DOMAIN searches :
                   searches[s].res = "pending" /\ searches'[s].res = "error"]_vars

C13_Witness ==
    \E i \in DOMAIN fetches :
        /\ fetches[i].origin.kind = "search"
        /\ searches[fetches[i].origin.id].res = "match"
        /\ searches[fetches[i].origin.id].pc = "done"
        /\ fetches[i].settled = "rejected"
        /\ error = FailedWeather

(* C15, as claimed: whenever the ready view is on screen, the stored       *)
(* weather and forecast were fetched with the currently selected unit.     *)
C15_UnitMatchesData ==
    view = "ready" => (weather.units = unit /\ forecast.units = unit)

(* C16: whenever weather and forecast are non-null they are the payloads   *)
(* of one and the same fetchWeather call: same call, same coordinates,     *)
(* same units parameter.                                                   *)
C16_SameCall ==
    (weather # Null /\ forecast # Null)
        => /\ weather.call = forecast.call
           /\ weather.lat = forecast.lat
           /\ weather.lon = forecast.lon
           /\ weather.units = forecast.units
           /\ weather.call \in DOMAIN fetches
           /\ fetches[weather.call].settled = "resolved"

(* Two overlapping calls with different coordinates (one from a search,    *)
(* one from geolocation) have both resolved.                               *)
C16_Witness ==
    \E i \in DOMAIN fetches : \E j \in DOMAIN fetches :
        /\ i # j
        /\ fetches[i].origin.kind = "search"
        /\ fetches[j].origin.kind = "geo"
        /\ fetches[i].settled = "resolved"
        /\ fetches[j].settled = "resolved"
        /\ weather.call = i
        /\ forecast.call = i

(* C14: submitting the form with an empty location is a no-op.  While the  *)
(* location is empty no step issues a geocoding request, and no geocoding  *)
(* request ever carries an empty query; the loading flag, the error        *)
(* message, weather and forecast change only in steps in which a request   *)
(* is issued or answered or a geolocation callback runs, and the unit only *)
(* in the step of a toggle, which issues a geolocation request: a submit   *)
(* that issues nothing changes none of them.                               *)
C14_EmptySubmitNoOp ==
    [][
        /\ location = "" => Len(searches') = Len(searches)
        /\ \A s \in DOMAIN searches' : searches'[s].query # ""
        /\ (loading' # loading \/ error' # error \/ weather' # weather
               \/ forecast' # forecast \/ view' # view)
             => (geos' # geos \/ searches' # searches \/ fetches' # fetches)
        /\ unit' # unit => Len(geos') = Len(geos) + 1
        /\ Len(fetches') > Len(fetches)
             => (geos' # geos \/ searches' # searches)]_vars

(* The form is on screen with an empty input, in the ready view: an empty  *)
(* submit can happen here and leaves the dashboard as it is.               *)
C14_Witness ==
    /\ FormRendered
    /\ location = ""
    /\ ENABLED HandleSearchEmpty
    /\ view = "ready"
    /\ Len(searches) = 0

(* C12: in the ready view the forecast tiles are the first 5 entries of    *)
(* the forecast list, in their original order, when the list has at least  *)
(* 5 entries, and all the entries in their original order when it has      *)
(* fewer.                                                                  *)
C12_FirstFiveTiles ==
    view = "ready"
        => /\ Len(forecastList) >= 5 => Len(tiles) = 5
           /\ Len(forecastList) < 5 => Len(tiles) = Len(forecastList)
           /\ \A k \in 1..Len(tiles) : tiles[k] = forecastList[k]

C12_Witness ==
    /\ view = "ready"
    /\ Len(forecastList) = 6
    /\ forecastList[1] # forecastList[2]
    /\ forecastList[5] # forecastList[6]
    /\ Len(tiles) = 5
    /\ tiles[5] = forecastList[5]

====
